---- MODULE Spec2Model ----
(***************************************************************************)
(* Model of cupy/indexing/indexing.py: take, choose, diagonal and their    *)
(* three element-wise kernels.                                             *)
(*                                                                         *)
(* An array is a record [buf, shape, strides, offset, dtype]: a window on  *)
(* the buffer mem[buf].  Shapes, strides and coordinates are sequences;    *)
(* coordinates and flat indices are 0-based as in the source, buffers are  *)
(* TLA+ sequences, so element p of a buffer is mem[buf][p + 1].            *)
(***************************************************************************)
EXTENDS Integers, Sequences, FiniteSets, TLC

VARIABLES pc, call, mem, ret, job, launched, mem0, written

vars == <<pc, call, mem, ret, job, launched, mem0, written>>

(***************************************************************************)
(* Bounds of the model.                                                    *)
(***************************************************************************)
MaxRank == 3
MaxSize == 6
MaxChoices == 4
MaxTakeDim == 2
MaxIdx == 3
MaxSel == 2
MaxOffset == 2
MaxWrites == 2

(* Value a supplied `out` holds before the call, and the value written    *)
(* through a view; both differ from every element of an arange source.    *)
Sentinel == [fill |-> 77, mark |-> 55]
Fill == Sentinel.fill
Mark == Sentinel.mark

(* What a read outside the source buffer may yield.                        *)
Wild == {-1, 0}

DTypes == {"float32", "int32"}

(***************************************************************************)
(* The array library the file is written against.                          *)
(***************************************************************************)
RECURSIVE Prod(_)
Prod(s) == IF s = <<>> THEN 1 ELSE s[1] * Prod(Tail(s))

RECURSIVE SumProd(_, _)
SumProd(c, s) == IF c = <<>> THEN 0 ELSE c[1] * s[1] + SumProd(Tail(c), Tail(s))

RECURSIVE CStrides(_)
CStrides(shape) ==
    IF shape = <<>> THEN <<>>
    ELSE <<Prod(Tail(shape))>> \o CStrides(Tail(shape))

(* Coordinates of the i-th element in C order.                             *)
RECURSIVE Unravel(_, _)
Unravel(i, shape) ==
    IF shape = <<>> THEN <<>>
    ELSE LET r == Prod(Tail(shape))
         IN  <<i \div r>> \o Unravel(i % r, Tail(shape))

Ones(k) == [j \in 1..k |-> 1]

(* The slices s[:k] and s[k:] of a tuple, k >= 0.                          *)
Prefix(s, k) == SubSeq(s, 1, IF k < Len(s) THEN k ELSE Len(s))
Suffix(s, k) == SubSeq(s, k + 1, Len(s))

Coords(shape) == {Unravel(i, shape) : i \in 0..(Prod(shape) - 1)}

NewArray(buf, shape, dtype) ==
    [buf |-> buf, shape |-> shape, strides |-> CStrides(shape),
     offset |-> 0, dtype |-> dtype]

NoArray == NewArray("none", <<0>>, "float32")

(* A gather kernel about to be launched, with its arguments.               *)
NoJob ==
    [kernel |-> "none", a |-> NoArray, choices |-> NoArray,
     n_channel |-> 0, n |-> 0]

ndim(a) == Len(a.shape)
size(a) == Prod(a.shape)

Addr(a, c) == a.offset + SumProd(c, a.strides)
Elem(m, a, c) == m[a.buf][Addr(a, c) + 1]

(* The elements of a in C order.                                           *)
Values(m, a) == [p \in 1..size(a) |-> Elem(m, a, Unravel(p - 1, a.shape))]

arange(n) == [p \in 1..n |-> p - 1]

transpose(a, axes) ==
    [a EXCEPT !.shape = [j \in 1..Len(axes) |-> a.shape[axes[j] + 1]],
              !.strides = [j \in 1..Len(axes) |-> a.strides[axes[j] + 1]]]

reshape(a, shape) ==
    [a EXCEPT !.shape = shape, !.strides = CStrides(shape)]

ravel(a) == reshape(a, <<size(a)>>)

(* rollaxis(a, axis) with start = 0: axis becomes the leading axis.        *)
rollaxis(a, axis) ==
    transpose(a, <<axis>> \o [j \in 1..(ndim(a) - 1) |->
                                 IF j - 1 < axis THEN j - 1 ELSE j])

(* a[k] for an integer k: the k-th slice along the leading axis, a view.   *)
GetItem(a, k) ==
    [a EXCEPT !.shape = Tail(a.shape), !.strides = Tail(a.strides),
              !.offset = a.offset + k * a.strides[1]]

expand_dims(a, axis) ==
    [a EXCEPT !.shape = Prefix(a.shape, axis) \o <<1>> \o Suffix(a.shape, axis),
              !.strides = Prefix(a.strides, axis) \o <<0>> \o Suffix(a.strides, axis)]

PadLeft(s, k, v) == [j \in 1..(k - Len(s)) |-> v] \o s

Compatible(s1, s2) ==
    LET k == IF Len(s1) > Len(s2) THEN Len(s1) ELSE Len(s2)
        p1 == PadLeft(s1, k, 1)
        p2 == PadLeft(s2, k, 1)
    IN  \A j \in 1..k : p1[j] = p2[j] \/ p1[j] = 1 \/ p2[j] = 1

BroadcastShape(s1, s2) ==
    LET k == IF Len(s1) > Len(s2) THEN Len(s1) ELSE Len(s2)
        p1 == PadLeft(s1, k, 1)
        p2 == PadLeft(s2, k, 1)
    IN  [j \in 1..k |-> IF p1[j] = 1 THEN p2[j] ELSE p1[j]]

(* a seen with the given shape: broadcast axes get stride 0.               *)
BroadcastTo(a, shape) ==
    LET k  == Len(shape)
        ps == PadLeft(a.shape, k, 1)
        pt == PadLeft(a.strides, k, 0)
    IN  [a EXCEPT !.shape = shape,
                  !.strides = [j \in 1..k |->
                                  IF ps[j] = shape[j] THEN pt[j] ELSE 0]]

(* The buffer of `dst` after dst[...] = values (given in C order of dst).  *)
Store(m, dst, vals) ==
    [m EXCEPT ![dst.buf] =
        [q \in 1..Len(m[dst.buf]) |->
            IF \E p \in 1..size(dst) : Addr(dst, Unravel(p - 1, dst.shape)) + 1 = q
            THEN vals[CHOOSE p \in 1..size(dst) :
                          Addr(dst, Unravel(p - 1, dst.shape)) + 1 = q]
            ELSE m[dst.buf][q]]]

(* A new C-contiguous array in buffer `buf` holding vals.                  *)
Alloc(m, buf, shape, dtype, vals) ==
    [arr |-> NewArray(buf, shape, dtype), mem |-> [m EXCEPT ![buf] = vals]]

Result(kind, arr, m) == [kind |-> kind, arr |-> arr, mem |-> m]
Raise(kind, m) == Result(kind, NoArray, m)

(***************************************************************************)
(* _take_kernel, lines 152-160.  `a` is a raw argument, read at a flat     *)
(* index; `indices` and `out` are element-wise arguments, broadcast to the *)
(* shape of out.  take_src is the flat index the kernel reads for output   *)
(* element i.                                                              *)
(***************************************************************************)
take_src(i, index, cdim, rdim) ==
    LET li == i \div (rdim * cdim)
        ri == i % rdim
    IN  (li * cdim + index) * rdim + ri

(* The output values.  g gives, for each output position whose read falls  *)
(* outside a, the value that read yields.                                  *)
take_kernel(m, a, indices, cdim, rdim, out_shape, g) ==
    LET bidx == BroadcastTo(indices, out_shape)
    IN  [p \in 1..Prod(out_shape) |->
            LET i == p - 1
                s == take_src(i, Elem(m, bidx, Unravel(i, out_shape)), cdim, rdim)
            IN  IF s >= 0 /\ s < size(a)
                THEN Elem(m, a, Unravel(s, a.shape))
                ELSE g[i]]

(* The output positions whose read falls outside a.                        *)
take_wild(m, a, indices, cdim, rdim, out_shape) ==
    LET bidx == BroadcastTo(indices, out_shape)
    IN  {i \in 0..(Prod(out_shape) - 1) :
            LET s == take_src(i, Elem(m, bidx, Unravel(i, out_shape)), cdim, rdim)
            IN  ~(s >= 0 /\ s < size(a))}

(***************************************************************************)
(* take, lines 9-64.  c is the call: c.a the source, c.axisSet/c.axis the  *)
(* axis (unset is None), c.scalar/c.k a scalar index, c.indices an index   *)
(* array, c.outGiven/c.out a supplied out.                                 *)
(***************************************************************************)
take_lshape(c) == IF c.axisSet THEN Prefix(c.a.shape, c.axis) ELSE <<>>
take_rshape(c) == IF c.axisSet THEN Suffix(c.a.shape, c.axis + 1) ELSE <<>>
take_a(c) == IF c.axisSet THEN c.a ELSE ravel(c.a)
take_out_shape(c) == take_lshape(c) \o c.indices.shape \o take_rshape(c)
take_indices(c) ==
    reshape(c.indices,
            Ones(Len(take_lshape(c))) \o c.indices.shape
                \o Ones(Len(take_rshape(c))))

(* Scalar index, lines 41-47.  With axis unset rollaxis is handed None,    *)
(* which is no axis: the call ends in its type error.                      *)
take_scalar(m, c) ==
    IF ~c.axisSet
    THEN Raise("TypeError", m)
    ELSE LET a == rollaxis(take_a(c), c.axis)
             x == GetItem(a, c.k)
         IN  IF ~c.outGiven
             THEN LET r == Alloc(m, "ret", x.shape, x.dtype, Values(m, x))
                  IN  Result("ok", r.arr, r.mem)
             ELSE IF ~Compatible(x.shape, c.out.shape)
                     \/ BroadcastShape(x.shape, c.out.shape) # c.out.shape
                  THEN Raise("ValueError", m)
                  ELSE Result("ok", c.out,
                              Store(m, c.out,
                                    Values(m, BroadcastTo(x, c.out.shape))))

take_array(m, c, g) ==
    LET a         == take_a(c)
        out_shape == take_out_shape(c)
        cdim      == size(c.indices)
        rdim      == Prod(take_rshape(c))
        indices   == take_indices(c)
        vals      == take_kernel(m, a, indices, cdim, rdim, out_shape, g)
    IN  IF ~c.outGiven
        THEN LET r == Alloc(m, "ret", out_shape, a.dtype, vals)
             IN  Result("ok", r.arr, r.mem)
        ELSE IF c.out.dtype # a.dtype THEN Raise("TypeError", m)
        ELSE IF c.out.shape # out_shape THEN Raise("ValueError", m)
        ELSE Result("ok", c.out, Store(m, c.out, vals))

take(m, c, g) ==
    IF c.axisSet /\ c.axis >= ndim(c.a) THEN Raise("ValueError", m)
    ELSE IF c.scalar THEN take_scalar(m, c)
    ELSE take_array(m, c, g)

(***************************************************************************)
(* _choose_kernel, lines 162-166, and _choose_clip_kernel, lines 168-180.  *)
(* `a` is the element-wise argument, `choices` a raw argument read at a    *)
(* flat index; the output has the shape of a.  g gives the value of a read *)
(* outside choices.                                                        *)
(***************************************************************************)
choose_src(i, x, n_channel) == i + n_channel * x

(* clip_x with the upper test off by one (a > n for a >= n).               *)
clip_x_strict(x, n) == IF x < 0 THEN 0 ELSE IF x > n THEN n - 1 ELSE x

clip_x(x, n) == IF x < 0 THEN 0 ELSE IF x >= n THEN n - 1 ELSE x

RawRead(m, raw, s, i, g) ==
    IF s >= 0 /\ s < size(raw)
    THEN Elem(m, raw, Unravel(s, raw.shape))
    ELSE g[i]

choose_kernel(m, a, choices, n_channel, g) ==
    [p \in 1..size(a) |->
        LET i == p - 1
            x == Elem(m, a, Unravel(i, a.shape))
        IN  RawRead(m, choices, choose_src(i, x, n_channel), i, g)]

choose_clip_kernel(m, a, choices, n_channel, n, g) ==
    [p \in 1..size(a) |->
        LET i == p - 1
            x == clip_x(Elem(m, a, Unravel(i, a.shape)), n)
        IN  RawRead(m, choices, choose_src(i, x, n_channel), i, g)]

(* The output positions of a pending gather whose read falls outside       *)
(* choices.                                                                *)
choose_wild(m, j) ==
    {i \in 0..(size(j.a) - 1) :
        LET e == Elem(m, j.a, Unravel(i, j.a.shape))
            x == IF j.kernel = "cupy_choose_clip" THEN clip_x(e, j.n) ELSE e
            s == choose_src(i, x, j.n_channel)
        IN  ~(s >= 0 /\ s < size(j.choices))}

(***************************************************************************)
(* choose, lines 67-92.  c.a is the selector, c.choices the choices,       *)
(* c.mode the mode, c.outGiven/c.out a supplied out.                       *)
(***************************************************************************)
RECURSIVE ExpandTimes(_, _, _)
ExpandTimes(a, axis, k) ==
    IF k <= 0 THEN a ELSE ExpandTimes(expand_dims(a, axis), axis, k - 1)

(* Lines 71-76: the selector and the choices with their unit axes added.   *)
choose_a(c) ==
    IF ndim(c.a) < ndim(c.choices) - 1
    THEN ExpandTimes(c.a, 0, ndim(c.choices) - 1 - ndim(c.a))
    ELSE c.a

choose_choices(c) ==
    IF ndim(c.a) < ndim(c.choices) - 1 THEN c.choices
    ELSE IF ndim(c.a) > ndim(c.choices) - 1
         THEN ExpandTimes(c.choices, 1, ndim(c.a) + 1 - ndim(c.choices))
         ELSE c.choices

choose_compatible(c) == Compatible(choose_a(c).shape, choose_choices(c).shape)
choose_bshape(c) == BroadcastShape(choose_a(c).shape, choose_choices(c).shape)

(* x % n on an integer array element: the floored remainder.               *)
remainder(x, n) == x - (x \div n) * n

(* choose_valid without the lower test.                                    *)
choose_valid_upper(m, a, n) ==
    \A co \in Coords(a.shape) : Elem(m, a, co) < n

(* Line 81: every element of the selector is in [0, n).                    *)
choose_valid(m, a, n) ==
    /\ \A co \in Coords(a.shape) : Elem(m, a, co) < n
    /\ \A co \in Coords(a.shape) : 0 <= Elem(m, a, co)

NewJob(kernel, a, choices, n_channel, n) ==
    [kernel |-> kernel, a |-> a, choices |-> choices,
     n_channel |-> n_channel, n |-> n]

Pending(j, m) == [kind |-> "gather", job |-> j, mem |-> m]
Failed(kind, m) == [kind |-> kind, job |-> NoJob, mem |-> m]

(* Lines 80-83.                                                            *)
choose_raise(m, a, ba0, bcs, n_channel, n) ==
    IF ~choose_valid(m, a, n) THEN Failed("ValueError", m)
    ELSE Pending(NewJob("cupy_choose", ba0, bcs, n_channel, n), m)

(* choose_wrap without the modulo.                                         *)
choose_wrap_keep(m, a, ba0, bcs, n_channel, n) ==
    Pending(NewJob("cupy_choose", ba0, bcs, n_channel, n), m)

(* Lines 84-86: ba[0] % n is a new array.                                  *)
choose_wrap(m, a, ba0, bcs, n_channel, n) ==
    LET w == Alloc(m, "tmp", ba0.shape, ba0.dtype,
                   [p \in 1..size(ba0) |-> remainder(Values(m, ba0)[p], n)])
    IN  Pending(NewJob("cupy_choose", w.arr, bcs, n_channel, n), w.mem)

(* Lines 87-88.                                                            *)
choose_clip(m, a, ba0, bcs, n_channel, n) ==
    Pending(NewJob("cupy_choose_clip", ba0, bcs, n_channel, n), m)

(* choose_dispatch with every unknown mode taken as 'clip'.                *)
choose_dispatch_default(m, mode, a, ba0, bcs, n_channel, n) ==
    IF mode = "raise" THEN choose_raise(m, a, ba0, bcs, n_channel, n)
    ELSE IF mode = "wrap" THEN choose_wrap(m, a, ba0, bcs, n_channel, n)
    ELSE choose_clip(m, a, ba0, bcs, n_channel, n)

(* Lines 80-90: the dispatch on mode.                                      *)
choose_dispatch(m, mode, a, ba0, bcs, n_channel, n) ==
    IF mode = "raise" THEN choose_raise(m, a, ba0, bcs, n_channel, n)
    ELSE IF mode = "wrap" THEN choose_wrap(m, a, ba0, bcs, n_channel, n)
    ELSE IF mode = "clip" THEN choose_clip(m, a, ba0, bcs, n_channel, n)
    ELSE Failed("TypeError", m)

(* Lines 68-90: everything up to the launch of the gather kernel.          *)
choose_enter(m, c) ==
    LET n == c.choices.shape[1]
        a == choose_a(c)
    IN  IF ~choose_compatible(c) THEN Failed("ValueError", m)
        ELSE LET ba        == BroadcastTo(a, choose_bshape(c))
                 bcs       == BroadcastTo(choose_choices(c), choose_bshape(c))
                 ba0       == GetItem(ba, 0)
                 n_channel == Prod(GetItem(bcs, 0).shape)
             IN  choose_dispatch(m, c.mode, a, ba0, bcs, n_channel, n)

(* Lines 83, 86, 88 and 92: the gather kernel runs and c is returned.      *)
choose_gather(m, j, g) ==
    LET vals == IF j.kernel = "cupy_choose_clip"
                THEN choose_clip_kernel(m, j.a, j.choices, j.n_channel, j.n, g)
                ELSE choose_kernel(m, j.a, j.choices, j.n_channel, g)
        r    == Alloc(m, "ret", j.a.shape, j.choices.dtype, vals)
    IN  Result("ok", r.arr, r.mem)

(* The whole call.                                                         *)
choose(m, c, g) ==
    LET e == choose_enter(m, c)
    IN  IF e.kind = "gather" THEN choose_gather(e.mem, e.job, g)
        ELSE Raise(e.kind, m)

(***************************************************************************)
(* diagonal, lines 98-146.  c.a is the source, c.offset the offset,        *)
(* c.axis1 and c.axis2 the two axes.                                       *)
(***************************************************************************)
Min(x, y) == IF x < y THEN x ELSE y
Max(x, y) == IF x > y THEN x ELSE y

(* del s[k], k a 0-based position.                                         *)
DelAt(s, k) == Prefix(s, k) \o Suffix(s, k + 1)

(* Lines 119-126: the axes other than axis1 and axis2.                     *)
diagonal_tr(nd, axis1, axis2) ==
    LET min_axis == IF axis1 < axis2 THEN axis1 ELSE axis2
        max_axis == IF axis1 < axis2 THEN axis2 ELSE axis1
    IN  DelAt(DelAt([j \in 1..nd |-> j - 1], max_axis), min_axis)

(* diagonal_axes without the swap for a negative offset.                   *)
diagonal_axes_noswap(nd, offset, axis1, axis2) ==
    diagonal_tr(nd, axis1, axis2) \o <<axis1, axis2>>

(* Lines 127-131: the transposition, by the sign of offset.                *)
diagonal_axes(nd, offset, axis1, axis2) ==
    IF offset >= 0
    THEN diagonal_tr(nd, axis1, axis2) \o <<axis1, axis2>>
    ELSE diagonal_tr(nd, axis1, axis2) \o <<axis2, axis1>>

diagonal_offset(offset) == IF offset >= 0 THEN offset ELSE -offset

(* Line 133.                                                               *)
diagonal_size(a, offset) ==
    Max(0, Min(a.shape[ndim(a) - 1], a.shape[ndim(a)] - offset))

(* a[..., :d, offset:offset + d], line 138: a view, bounds clamped as      *)
(* slices are.                                                             *)
SliceLast2(a, d, offset) ==
    LET nd    == ndim(a)
        rows  == Min(d, a.shape[nd - 1])
        start == Min(offset, a.shape[nd])
        stop  == Min(offset + d, a.shape[nd])
    IN  [a EXCEPT !.shape = Prefix(a.shape, nd - 2)
                                \o <<rows, Max(0, stop - start)>>,
                  !.offset = a.offset + start * a.strides[nd]]

(* diagonal_view with the last stride alone as the diagonal's stride.      *)
diagonal_view_row(a, diag_size) ==
    LET nd == ndim(a)
    IN  [a EXCEPT !.shape = Prefix(a.shape, nd - 2) \o <<diag_size>>,
                  !.strides = Prefix(a.strides, nd - 2) \o <<a.strides[nd]>>]

(* Lines 140-146: the view on the diagonal of the window.                  *)
diagonal_view(a, diag_size) ==
    LET nd == ndim(a)
    IN  [a EXCEPT !.shape = Prefix(a.shape, nd - 2) \o <<diag_size>>,
                  !.strides = Prefix(a.strides, nd - 2)
                                  \o <<a.strides[nd] + a.strides[nd - 1]>>]

diagonal(m, c) ==
    LET a         == transpose(c.a, diagonal_axes(ndim(c.a), c.offset,
                                                  c.axis1, c.axis2))
        offset    == diagonal_offset(c.offset)
        diag_size == diagonal_size(a, offset)
        ret_shape == Prefix(a.shape, ndim(a) - 2) \o <<diag_size>>
    IN  IF diag_size = 0
        THEN LET r == Alloc(m, "ret", ret_shape, a.dtype, <<>>)
             IN  Result("ok", r.arr, r.mem)
        ELSE Result("ok",
                    diagonal_view(SliceLast2(a, diag_size, offset), diag_size),
                    m)

(***************************************************************************)
(* Inputs.                                                                 *)
(***************************************************************************)
(* The shapes of rank k with every axis in dims.                           *)
RECURSIVE ShapesOfRank(_, _)
ShapesOfRank(k, dims) ==
    IF k = 0 THEN {<<>>}
    ELSE {<<d>> \o s : d \in dims, s \in ShapesOfRank(k - 1, dims)}

(* The shapes of rank k with at most n elements.                           *)
RECURSIVE ShapesOfSize(_, _)
ShapesOfSize(k, n) ==
    IF k = 0 THEN {<<>>}
    ELSE UNION {{<<d>> \o s : s \in ShapesOfSize(k - 1, n \div d)} : d \in 1..n}

TakeShapes == UNION {ShapesOfRank(k, 1..MaxTakeDim) : k \in 1..MaxRank}

ChoiceShapes == UNION {ShapesOfSize(k, MaxChoices) : k \in 1..MaxRank}

DiagShapes == UNION {ShapesOfSize(k, MaxSize) : k \in 2..MaxRank}

(* Index arrays: rank 1 or 2, at most MaxIdx elements.                     *)
IdxShapes ==
    {<<n>> : n \in 1..MaxIdx}
        \cup {s \in {<<n1, n2>> : n1, n2 \in 1..MaxIdx} : Prod(s) <= MaxIdx}

OutShapes(expected) == {expected, <<2>>, <<1, 2>>}

Buffers == {"a", "idx", "c", "out", "tmp", "ret", "none"}

NoMem == [b \in Buffers |-> <<>>]

NoCall ==
    [op |-> "none", a |-> NoArray, axisSet |-> FALSE, axis |-> 0,
     scalar |-> FALSE, k |-> 0, indices |-> NoArray,
     outGiven |-> FALSE, out |-> NoArray,
     choices |-> NoArray, mode |-> "raise",
     offset |-> 0, axis1 |-> 0, axis2 |-> 0]

NoRet == [kind |-> "none", arr |-> NoArray]

Init ==
    /\ pc = "idle"
    /\ call = NoCall
    /\ mem = NoMem
    /\ ret = NoRet
    /\ job = NoJob
    /\ launched = <<>>
    /\ mem0 = NoMem
    /\ written = {}

(* The length of the axis the indices of a take call address.              *)
TakeAxisLen(shape, axisSet, axis) ==
    IF ~axisSet THEN Prod(shape)
    ELSE IF axis < Len(shape) THEN shape[axis + 1] ELSE 1

TakeCalls ==
    {[NoCall EXCEPT !.op = "take",
                    !.a = NewArray("a", shape, "float32"),
                    !.axisSet = ax[1], !.axis = ax[2]] :
        shape \in TakeShapes,
        ax \in {<<FALSE, 0>>} \cup {<<TRUE, x>> : x \in 0..MaxRank}}

(* take(a, indices, axis, out), one call.                                  *)
Take ==
    /\ pc = "idle"
    /\ \E c0 \in TakeCalls, scalar \in BOOLEAN, ishape \in IdxShapes,
          outGiven \in BOOLEAN, odtype \in DTypes :
        LET n == TakeAxisLen(c0.a.shape, c0.axisSet, c0.axis)
        IN  \E k \in 0..(n - 1), ivals \in [1..Prod(ishape) -> 0..(n - 1)] :
            /\ scalar => ishape = <<1>> /\ ivals = <<0>>
            /\ ~scalar => k = 0
            /\ ~outGiven => odtype = "float32"
            /\ LET c1 == [c0 EXCEPT !.scalar = scalar, !.k = k,
                                    !.indices = NewArray("idx", ishape, "int32"),
                                    !.outGiven = outGiven]
                   expected == IF scalar
                               THEN take_lshape(c1) \o take_rshape(c1)
                               ELSE take_out_shape(c1)
               IN  \E oshape \in OutShapes(expected) :
                   /\ ~outGiven => oshape = expected
                   /\ LET c  == [c1 EXCEPT !.out = NewArray("out", oshape, odtype)]
                          m  == [NoMem EXCEPT
                                    !["a"] = arange(size(c.a)),
                                    !["idx"] = ivals,
                                    !["out"] = IF outGiven
                                               THEN [p \in 1..Prod(oshape) |-> Fill]
                                               ELSE <<>>]
                          wild == IF c.scalar \/ (c.axisSet /\ c.axis >= ndim(c.a))
                                  THEN {}
                                  ELSE take_wild(m, take_a(c), take_indices(c),
                                                 size(c.indices),
                                                 Prod(take_rshape(c)),
                                                 take_out_shape(c))
                      IN  \E g \in [wild -> Wild] :
                          LET r == take(m, c, g)
                          IN  /\ call' = c
                              /\ mem0' = m
                              /\ mem' = r.mem
                              /\ ret' = [kind |-> r.kind, arr |-> r.arr]
                              /\ job' = NoJob
                              /\ launched' = IF r.kind = "ok" /\ ~scalar
                                             THEN <<"cupy_take">> ELSE <<>>
                              /\ written' = {}
                              /\ pc' = "returned"

(* Selectors: a scalar array, a vector or a column of at most MaxSel       *)
(* elements, each below, at either end of, or above the range [0, n).      *)
SelShapes ==
    {<<>>} \cup {<<k>> : k \in 1..MaxSel} \cup {<<k, 1>> : k \in 1..MaxSel}

SelValues(n) == {-1, 0, n - 1, n}

Modes == {"raise", "wrap", "clip", "bogus"}

(* A supplied out: of the result's dtype and shape, of another dtype, or   *)
(* of another shape.                                                       *)
ChooseOuts(expected) ==
    {NewArray("out", expected, "float32"), NewArray("out", expected, "int32"),
     NewArray("out", expected \o <<2>>, "float32")}

ChooseExpectedShape(c) ==
    IF choose_compatible(c) THEN Tail(choose_bshape(c)) ELSE <<>>

(* choose(a, choices, out, mode) up to the launch of its gather kernel.    *)
ChooseEnter ==
    /\ pc = "idle"
    /\ \E sshape \in SelShapes, cshape \in ChoiceShapes, mode \in Modes,
          outGiven \in BOOLEAN :
        \E svals \in [1..Prod(sshape) -> SelValues(cshape[1])] :
            LET c0 == [NoCall EXCEPT !.op = "choose",
                                     !.a = NewArray("a", sshape, "int32"),
                                     !.choices = NewArray("c", cshape, "float32"),
                                     !.mode = mode, !.outGiven = outGiven]
            IN  \E out \in ChooseOuts(ChooseExpectedShape(c0)) :
                /\ ~outGiven => out = NewArray("out", ChooseExpectedShape(c0), "float32")
                /\ LET c == [c0 EXCEPT !.out = out]
                       m == [NoMem EXCEPT
                                !["a"] = svals,
                                !["c"] = arange(Prod(cshape)),
                                !["out"] = IF outGiven
                                           THEN [p \in 1..size(out) |-> Fill]
                                           ELSE <<>>]
                       e == choose_enter(m, c)
                   IN  /\ call' = c
                       /\ mem0' = m
                       /\ mem' = e.mem
                       /\ job' = e.job
                       /\ launched' = <<>>
                       /\ written' = {}
                       /\ IF e.kind = "gather"
                          THEN pc' = "gather" /\ ret' = NoRet
                          ELSE pc' = "returned"
                               /\ ret' = [kind |-> e.kind, arr |-> NoArray]

(* The gather kernel of the pending choose call runs; the call returns.    *)
ChooseGather ==
    /\ pc = "gather"
    /\ \E g \in [choose_wild(mem, job) -> Wild] :
        LET r == choose_gather(mem, job, g)
        IN  /\ mem' = r.mem
            /\ ret' = [kind |-> r.kind, arr |-> r.arr]
            /\ launched' = Append(launched, job.kernel)
            /\ pc' = "returned"
            /\ UNCHANGED <<call, job, mem0, written>>

NextChoose == ChooseEnter \/ ChooseGather

SpecChoose == Init /\ [][NextChoose]_vars

(* Source arrays of diagonal: C-contiguous, or the transpose of one.       *)
Reverse(s) == [j \in 1..Len(s) |-> s[Len(s) + 1 - j]]

Source(shape, layout) ==
    IF layout = "C" THEN NewArray("a", shape, "float32")
    ELSE transpose(NewArray("a", Reverse(shape), "float32"),
                   Reverse([j \in 1..Len(shape) |-> j - 1]))

(* diagonal(a, offset, axis1, axis2), one call.                            *)
Diagonal ==
    /\ pc = "idle"
    /\ \E shape \in DiagShapes, layout \in {"C", "F"},
          offset \in (-MaxOffset)..MaxOffset :
        \E axis1, axis2 \in 0..(Len(shape) - 1) :
            /\ axis1 # axis2
            /\ LET c == [NoCall EXCEPT !.op = "diagonal",
                                       !.a = Source(shape, layout),
                                       !.offset = offset,
                                       !.axis1 = axis1, !.axis2 = axis2]
                   m == [NoMem EXCEPT !["a"] = arange(Prod(shape))]
                   r == diagonal(m, c)
               IN  /\ call' = c
                   /\ mem0' = m
                   /\ mem' = r.mem
                   /\ ret' = [kind |-> r.kind, arr |-> r.arr]
                   /\ job' = NoJob
                   /\ launched' = <<>>
                   /\ written' = {}
                   /\ pc' = "returned"

(* The caller writes one element of the array diagonal returned.           *)
WriteDiagonal ==
    /\ pc = "returned"
    /\ call.op = "diagonal"
    /\ ret.kind = "ok"
    /\ Cardinality(written) < MaxWrites
    /\ \E co \in Coords(ret.arr.shape) \ written :
        /\ mem' = [mem EXCEPT ![ret.arr.buf][Addr(ret.arr, co) + 1] = Mark]
        /\ written' = written \cup {co}
    /\ UNCHANGED <<pc, call, ret, job, launched, mem0>>

NextDiagonal == Diagonal \/ WriteDiagonal

SpecDiagonal == Init /\ [][NextDiagonal]_vars

NextTake == Take

SpecTake == Init /\ [][NextTake]_vars

(***************************************************************************)
(* Properties of take.                                                     *)
(***************************************************************************)
TakeReturned == pc = "returned" /\ call.op = "take"
TakeAxisValid == call.axisSet /\ call.axis < ndim(call.a)

(* The result shape numpy.take documents for the call.                     *)
TakeExpectedShape ==
    IF call.scalar THEN take_lshape(call) \o take_rshape(call)
    ELSE take_out_shape(call)

(* C1: with an index array whose values are all in range and a valid axis, *)
(* the output element at (l, c, r) is a[l, indices[c], r], for l over      *)
(* a.shape[:axis], c over the positions of indices, r over                 *)
(* a.shape[axis+1:].                                                       *)
C1_TakeGathersAlongAxis ==
    (TakeReturned /\ TakeAxisValid /\ ~call.scalar /\ ret.kind = "ok") =>
        /\ ret.arr.shape = take_out_shape(call)
        /\ \A l \in Coords(take_lshape(call)),
              c \in Coords(call.indices.shape),
              r \in Coords(take_rshape(call)) :
              Elem(mem, ret.arr, l \o c \o r)
                  = Elem(mem0, call.a,
                         l \o <<Elem(mem0, call.indices, c)>> \o r)

(* C2: a take call with a supplied out of another dtype ends in the type   *)
(* error, one with a supplied out of another shape in the shape (value)    *)
(* error, and out holds afterwards what it held before; for scalar and     *)
(* array indices alike.  (Stated for calls with a valid axis.)             *)
C2_TakeRejectsMismatchedOut ==
    (TakeReturned /\ TakeAxisValid /\ call.outGiven) =>
        LET badType  == call.out.dtype # call.a.dtype
            badShape == call.out.shape # TakeExpectedShape
        IN  /\ (badType /\ ~badShape) => ret.kind = "TypeError"
            /\ (badShape /\ ~badType) => ret.kind = "ValueError"
            /\ (badType /\ badShape) => ret.kind \in {"TypeError", "ValueError"}
            /\ (badType \/ badShape) => mem["out"] = mem0["out"]

(* C9: take(a, k, axis) with a valid scalar k and no out returns a new     *)
(* array, sharing no buffer with a, equal to the slice of a at k along     *)
(* axis; with axis unset, the k-th element of the flattened a.             *)
C9_TakeScalarCopiesSlice ==
    (TakeReturned /\ call.scalar /\ ~call.outGiven
        /\ (call.axisSet => call.axis < ndim(call.a))) =>
        /\ ret.kind = "ok"
        /\ ret.arr.buf # call.a.buf
        /\ mem["a"] = mem0["a"]
        /\ IF call.axisSet
           THEN /\ ret.arr.shape = take_lshape(call) \o take_rshape(call)
                /\ \A l \in Coords(take_lshape(call)),
                      r \in Coords(take_rshape(call)) :
                      Elem(mem, ret.arr, l \o r)
                          = Elem(mem0, call.a, l \o <<call.k>> \o r)
           ELSE /\ ret.arr.shape = <<>>
                /\ Elem(mem, ret.arr, <<>>) = Values(mem0, call.a)[call.k + 1]

(***************************************************************************)
(* Properties of choose.  The expected values are stated with numpy's      *)
(* broadcasting of the selector against each choices[x], by coordinates.   *)
(***************************************************************************)
ChooseCalled == call.op = "choose" /\ pc # "idle"
ChooseReturned == call.op = "choose" /\ pc = "returned"

ChooseN == call.choices.shape[1]

(* The element of arr that coordinates co of a broadcast shape address.    *)
BAt(m, arr, co) ==
    Elem(m, arr, [j \in 1..ndim(arr) |->
                     IF arr.shape[j] = 1 THEN 0
                     ELSE co[Len(co) - ndim(arr) + j]])

ChooseBroadcasts == Compatible(call.a.shape, Tail(call.choices.shape))
ChooseShape == BroadcastShape(call.a.shape, Tail(call.choices.shape))

SelAt(co) == BAt(mem0, call.a, co)
ChoiceAt(x, co) == BAt(mem0, GetItem(call.choices, x), co)

SelectorValues == {mem0["a"][p] : p \in 1..Len(mem0["a"])}
SelectorInRange == \A x \in SelectorValues : 0 <= x /\ x < ChooseN

(* The floored modulo: the r in [0, n) with x = q * n + r.                 *)
FlooredMod(x, n) ==
    CHOOSE r \in 0..(n - 1) : \E q \in (-(x * x) - 1)..(x * x + 1) : x = q * n + r

(* C3: a choose call with a supplied out whose dtype is not that of        *)
(* choices, or whose shape is not the broadcast shape, ends in the type    *)
(* error or the shape (value) error, and out is left as it was.  (Stated   *)
(* for calls that are otherwise valid: a known mode, a selector in range.) *)
C3_ChooseRejectsMismatchedOut ==
    (ChooseReturned /\ call.outGiven /\ ChooseBroadcasts
        /\ call.mode \in {"raise", "wrap", "clip"} /\ SelectorInRange) =>
        LET badType  == call.out.dtype # call.choices.dtype
            badShape == call.out.shape # ChooseShape
        IN  /\ (badType /\ ~badShape) => ret.kind = "TypeError"
            /\ (badShape /\ ~badType) => ret.kind = "ValueError"
            /\ (badType /\ badShape) => ret.kind \in {"TypeError", "ValueError"}
            /\ (badType \/ badShape) => mem["out"] = mem0["out"]

(* C4: in mode 'raise' the range check is over before the gather kernel    *)
(* is scheduled: when some selector element is outside [0, n) the call has *)
(* ended in a value error and no kernel was scheduled or launched, and     *)
(* whenever the kernel is scheduled or launched all elements are in        *)
(* [0, n).                                                                 *)
C4_RaiseValidatesBeforeGather ==
    (ChooseCalled /\ call.mode = "raise") =>
        /\ ~SelectorInRange =>
              /\ pc = "returned"
              /\ ret.kind = "ValueError"
              /\ launched = <<>>
              /\ job = NoJob
        /\ (pc = "gather" \/ launched # <<>>) => SelectorInRange

C4_Witness ==
    /\ ChooseReturned /\ call.mode = "raise" /\ ChooseBroadcasts
    /\ ~SelectorInRange /\ ret.kind = "ValueError" /\ launched = <<>>

(* C5: in mode 'wrap' the call does not fail on selector values outside    *)
(* [0, n), and returns what choose(s % n, choices, mode='raise') returns,  *)
(* % being the floored modulo.                                             *)
C5_WrapEqualsRaiseOfMod ==
    (ChooseReturned /\ call.mode = "wrap") =>
        LET m2  == [mem0 EXCEPT !["a"] =
                       [p \in 1..Len(mem0["a"]) |->
                           FlooredMod(mem0["a"][p], ChooseN)]]
            ref == choose(m2, [call EXCEPT !.mode = "raise"], <<>>)
        IN  /\ ChooseBroadcasts => ret.kind = "ok"
            /\ ret.kind = ref.kind
            /\ ret.kind = "ok" =>
                  /\ ret.arr.shape = ref.arr.shape
                  /\ ret.arr.dtype = ref.arr.dtype
                  /\ Values(mem, ret.arr) = Values(ref.mem, ref.arr)

C5_Witness ==
    /\ ChooseReturned /\ call.mode = "wrap" /\ ret.kind = "ok"
    /\ \E x \in SelectorValues : x < 0
    /\ \E x \in SelectorValues : x >= ChooseN
    /\ ChooseN > 1

(* C6: in mode 'clip' the call does not fail on selector values outside    *)
(* [0, n); at every position j of the broadcast shape the result is        *)
(* choices[0, j] where selector[j] < 0, choices[n-1, j] where              *)
(* selector[j] >= n, and choices[selector[j], j] otherwise.                *)
C6_ClipClampsSelector ==
    (ChooseReturned /\ call.mode = "clip" /\ ChooseBroadcasts) =>
        /\ ret.kind = "ok"
        /\ ret.arr.shape = ChooseShape
        /\ \A co \in Coords(ChooseShape) :
              Elem(mem, ret.arr, co) =
                  IF SelAt(co) < 0 THEN ChoiceAt(0, co)
                  ELSE IF SelAt(co) >= ChooseN THEN ChoiceAt(ChooseN - 1, co)
                  ELSE ChoiceAt(SelAt(co), co)

C6_Witness ==
    /\ ChooseReturned /\ call.mode = "clip" /\ ret.kind = "ok"
    /\ \E x \in SelectorValues : x < 0
    /\ \E x \in SelectorValues : x >= ChooseN
    /\ ChooseN > 1 /\ Prod(ChooseShape) > 2

DiagonalReturned == call.op = "diagonal" /\ pc = "returned"

(* diag_size as numpy.diagonal documents it, from the source's own axes.   *)
DiagSize ==
    IF call.offset >= 0
    THEN Max(0, Min(call.a.shape[call.axis1 + 1],
                    call.a.shape[call.axis2 + 1] - call.offset))
    ELSE Max(0, Min(call.a.shape[call.axis2 + 1],
                    call.a.shape[call.axis1 + 1] + call.offset))

(* The shape of the source without axis1 and axis2.                        *)
RestShape ==
    SelectSeq([j \in 1..ndim(call.a) |-> <<j - 1, call.a.shape[j]>>],
              LAMBDA e : e[1] # call.axis1 /\ e[1] # call.axis2)

DiagLeadShape == [j \in 1..Len(RestShape) |-> RestShape[j][2]]

(* The coordinates in the source of element i of the diagonal at lead.     *)
DiagCoord(lead, i) ==
    [j \in 1..ndim(call.a) |->
        IF j - 1 = call.axis1
        THEN (IF call.offset >= 0 THEN i ELSE i - call.offset)
        ELSE IF j - 1 = call.axis2
        THEN (IF call.offset >= 0 THEN i + call.offset ELSE i)
        ELSE lead[CHOOSE q \in 1..Len(RestShape) : RestShape[q][1] = j - 1]]

ViewCoords == Coords(ret.arr.shape)
ViewLead(co) == Prefix(co, Len(co) - 1)
ViewSource(co) == DiagCoord(ViewLead(co), co[Len(co)])

(* C7: for distinct axes in either order and any signed offset, diagonal   *)
(* returns an array of shape (remaining axes in order) + (diag_size,),     *)
(* whose element i along the last axis is the element of a at i on axis1   *)
(* and i + offset on axis2 (offset >= 0), or i - offset on axis1 and i on  *)
(* axis2 (offset < 0); empty when diag_size is 0.                          *)
C7_DiagonalShapeAndElements ==
    DiagonalReturned =>
        /\ ret.kind = "ok"
        /\ ret.arr.shape = DiagLeadShape \o <<DiagSize>>
        /\ ret.arr.dtype = call.a.dtype
        /\ \A co \in ViewCoords :
              Elem(mem, ret.arr, co) = Elem(mem, call.a, ViewSource(co))

C7_Witness ==
    /\ DiagonalReturned /\ ret.kind = "ok"
    /\ call.axis1 > call.axis2 /\ call.offset < 0
    /\ DiagSize > 1 /\ ndim(call.a) = 3
    /\ call.a.shape[call.axis1 + 1] # call.a.shape[call.axis2 + 1]

(* C8: when diag_size > 0 the result is a view on a's buffer: it addresses *)
(* only positions a addresses, distinct positions of it address distinct   *)
(* elements, and after any writes through it exactly the elements of a at  *)
(* the written diagonal positions have changed.                            *)
C8_DiagonalIsView ==
    (DiagonalReturned /\ DiagSize > 0) =>
        /\ ret.arr.buf = call.a.buf
        /\ \A co \in ViewCoords :
              \E ca \in Coords(call.a.shape) :
                  Addr(ret.arr, co) = Addr(call.a, ca)
        /\ \A c1, c2 \in ViewCoords :
              c1 # c2 => Addr(ret.arr, c1) # Addr(ret.arr, c2)
        /\ \A ca \in Coords(call.a.shape) :
              Elem(mem, call.a, ca) =
                  IF \E co \in written : ViewSource(co) = ca
                  THEN Mark
                  ELSE Elem(mem0, call.a, ca)

C8_Witness ==
    /\ DiagonalReturned /\ DiagSize > 1
    /\ Cardinality(written) = MaxWrites
    /\ call.offset # 0
    /\ \E ca \in Coords(call.a.shape) : Elem(mem, call.a, ca) # Mark

====
